---- MODULE Spec2Model ----
(***************************************************************************)
(* A model of gowsps: the packet system of net.go (handler table, the      *)
(* per-connection dispatch loop, Send under the write lock) and the binary *)
(* value codec of encoder.go (varints, length-prefixed text, the           *)
(* reflection-directed marshal/unmarshal).                                 *)
(***************************************************************************)
EXTENDS Integers, Sequences, FiniteSets, TLC

(***************************************************************************)
(* Bounds of the model.                                                    *)
(***************************************************************************)
NumThreads == 2     \* application goroutines that call Send
MaxId == 1          \* packet ids are 0..MaxId
MaxDeadReads == 2   \* reads of a failed transport before the library panics
MaxMsgs == 3        \* messages followed through one connection's callbacks
MaxLen == 2         \* longest short text, slice and map
LongLen == 130      \* length of the one long text

\* Two upgraded connections: each UpgradeAndListen call owns its Connection,
\* so two are what it takes to tell one connection's state from another's.
Conns == {"c1", "c2"}
Threads == 1..NumThreads
Ids == 0..MaxId

\* The user callbacks AddHandler may be given, and the empty table slot.
HandlerNames == {"hA", "hB"}
NoHandler == "none"

\* A JSON object may lack the "id" key; the decoder then leaves Packet.Id alone.
NoKey == -1

\* What ReadJSON can be handed by the peer: a JSON object with or without
\* its "id" and "data" keys (data either fits the registered struct or
\* not), the JSON literal null, or bytes that are not JSON.
\* ReadJSON takes the next data message, a text frame or a binary frame.
FrameTypes == {"text", "binary"}

Messages ==
    [kind : {"object"}, id : Ids \cup {NoKey}, data : {"absent", "ok", "bad"},
     frame : FrameTypes]
    \cup [kind : {"null", "malformed"}, id : {NoKey}, data : {"absent"},
          frame : FrameTypes]

NoMessage == [kind |-> "none", id |-> NoKey, data |-> "absent", frame |-> "none"]

\* p := &Packet{}: Id 0, Data nil.
EmptyPacket == [isNil |-> FALSE, Id |-> 0, Data |-> "nil"]

VARIABLES
    peerFrames,     \* the frame types the peers send their messages in
    Handlers,       \* PacketSystem.Handlers: id -> registered callback
    registered,     \* history: per id, the callback of the latest AddHandler
                    \* call and whether that call replaced a different one
    ErrorHandler,   \* PacketSystem.ErrorHandler # nil
    Open,           \* Connection.Open, per connection
    Lock,           \* Connection.Lock: the thread holding it, 0 when free
    transport,      \* the websocket: "up", "closed" (close frame read), "dead"
    lpc,            \* where UpgradeAndListen is, per connection
    p,              \* the Packet instance the loop reuses
    msg,            \* what the last ReadJSON of the loop returned
    invoked,        \* the user callback the last iteration called
    reported,       \* the error the last iteration gave to ErrorHandler
    deadReads,      \* ReadJSON calls made after the transport had failed
    tpc,            \* where each thread is inside Send
    tconn,          \* the connection a thread's Send is on
    late,           \* the thread's Send was invoked with Open already false
    torn,           \* a frame was started while another was being written
    received,       \* history: the ReadJSON calls that have returned, per connection
    running,        \* history: the callbacks that are executing, each named by
                    \* the number of the message it was called for
    started,        \* history: those numbers in the order the callbacks began
    cshape,         \* the record type the codec is run on
    cval,           \* the record given to marshalPacketData
    cid,            \* the Packet.Id given to MarshalPacket
    cwire,          \* the bytes put into the PacketBuffer
    cbuf,           \* the unread bytes of the PacketBuffer
    ccut,           \* the buffer was cut short before decoding
    cres,           \* what UnMarshalPacket returned and stored
    cpc             \* where the codec run is

dispatchVars == <<received, running, started>>

netVars == <<peerFrames, Handlers, registered, ErrorHandler, Open, Lock, transport, lpc, p, msg,
             invoked, reported, deadReads, tpc, tconn, late, torn, dispatchVars>>

codecVars == <<cshape, cval, cid, cwire, cbuf, ccut, cres, cpc>>

vars == <<netVars, codecVars>>

(***************************************************************************)
(* net.go                                                                  *)
(***************************************************************************)

\* NewPacketSystem: no handlers, no error handler; nothing upgraded yet.
NetStart(frames) ==
    /\ peerFrames = frames
    /\ Handlers = [i \in Ids |-> NoHandler]
    /\ registered = [i \in Ids |-> [last |-> NoHandler, over |-> FALSE]]
    /\ ErrorHandler = FALSE
    /\ Open = [c \in Conns |-> FALSE]
    /\ Lock = [c \in Conns |-> 0]
    /\ transport = [c \in Conns |-> "up"]
    /\ lpc = [c \in Conns |-> "new"]
    /\ p = [c \in Conns |-> EmptyPacket]
    /\ msg = [c \in Conns |-> NoMessage]
    /\ invoked = [c \in Conns |-> NoHandler]
    /\ reported = [c \in Conns |-> "nil"]
    /\ deadReads = [c \in Conns |-> 0]
    /\ tpc = [t \in Threads |-> "idle"]
    /\ tconn = [t \in Threads |-> "c1"]
    /\ late = [t \in Threads |-> FALSE]
    /\ torn = [c \in Conns |-> FALSE]
    /\ received = [c \in Conns |-> 0]
    /\ running = [c \in Conns |-> {}]
    /\ started = [c \in Conns |-> <<>>]

\* The peers send text frames, as Send (WriteJSON) itself does.
NetInit == NetStart({"text"})

\* The table is configured before connections are accepted.
Setup == \A c \in Conns : lpc[c] = "new"

\* AddHandler that keeps the handler an id already has.
AddHandlerKeepFirst(id, h) ==
    /\ Setup
    /\ Handlers' = IF Handlers[id] = NoHandler THEN [Handlers EXCEPT ![id] = h] ELSE Handlers
    /\ UNCHANGED <<codecVars, dispatchVars, peerFrames, ErrorHandler, Open, Lock, transport, lpc, p, msg, invoked,
                   reported, deadReads, tpc, tconn, late, torn>>

\* s.Handlers[id] = func(packet *Packet) {...}
AddHandler(id, h) ==
    /\ Setup
    /\ Handlers' = [Handlers EXCEPT ![id] = h]
    /\ UNCHANGED <<codecVars, dispatchVars, peerFrames, ErrorHandler, Open, Lock, transport, lpc, p, msg, invoked,
                   reported, deadReads, tpc, tconn, late, torn>>

SetErrorHandler ==
    /\ Setup
    /\ ErrorHandler' = TRUE
    /\ UNCHANGED <<codecVars, dispatchVars, peerFrames, registered, Handlers, Open, Lock, transport, lpc, p, msg, invoked,
                   reported, deadReads, tpc, tconn, late, torn>>

\* UpgradeAndListen with `Open: true` left out of the Connection literal.
UpgradeAndListenClosed(c) ==
    /\ lpc[c] = "new"
    /\ \/ /\ lpc' = [lpc EXCEPT ![c] = "failed"]
          /\ UNCHANGED Open
       \/ /\ lpc' = [lpc EXCEPT ![c] = "loop"]
          /\ UNCHANGED Open
    /\ UNCHANGED <<codecVars, dispatchVars, peerFrames, registered, Handlers, ErrorHandler, Lock, transport, p, msg, invoked,
                   reported, deadReads, tpc, tconn, late, torn>>

\* UpgradeAndListen up to the loop: the upgrade fails (callback(nil, err),
\* return) or yields a Connection with Open true and a fresh lock.
UpgradeAndListen(c) ==
    /\ lpc[c] = "new"
    /\ \/ /\ lpc' = [lpc EXCEPT ![c] = "failed"]
          /\ UNCHANGED Open
       \/ /\ lpc' = [lpc EXCEPT ![c] = "loop"]
          /\ Open' = [Open EXCEPT ![c] = TRUE]
    /\ UNCHANGED <<codecVars, dispatchVars, peerFrames, registered, Handlers, ErrorHandler, Lock, transport, p, msg, invoked,
                   reported, deadReads, tpc, tconn, late, torn>>

\* encoding/json into the existing *p: keys present overwrite, keys absent
\* keep what the previous message left; null sets the pointer to nil.
ReadJSONInto(pk, m) ==
    IF m.kind = "null" THEN [pk EXCEPT !.isNil = TRUE]
    ELSE IF m.kind = "malformed" THEN pk
    ELSE [isNil |-> FALSE,
          Id |-> IF m.id = NoKey THEN pk.Id ELSE m.id,
          Data |-> IF m.data = "absent" THEN pk.Data ELSE m.data]

\* The error ReadJSON returns for what the transport delivered.
ReadJSONErr(m) ==
    CASE m.kind \in {"object", "null"} -> "nil"
      [] m.kind = "malformed" -> "json"
      [] m.kind = "close" -> "close"
      [] OTHER -> "io"

\* The closure AddHandler stored: mapstructure.Decode(packet.Data, out) and,
\* only when that gave no error, handler(out). The error goes nowhere.
HandlerCall(h, pk) == IF pk.Data = "bad" THEN NoHandler ELSE h

\* DecodePacket with the missing-handler branch returning nil.
DecodePacketSilentUnknown(rerr, pk, open, handlers) ==
    IF rerr # "nil"
    THEN [ret |-> IF open THEN rerr ELSE "nil", invoked |-> NoHandler, panic |-> FALSE]
    ELSE IF pk.isNil
    THEN [ret |-> "nil", invoked |-> NoHandler, panic |-> TRUE]
    ELSE IF handlers[pk.Id] = NoHandler
    THEN [ret |-> "nil", invoked |-> NoHandler, panic |-> FALSE]
    ELSE [ret |-> "nil", invoked |-> HandlerCall(handlers[pk.Id], pk), panic |-> FALSE]

\* DecodePacket without the `if c.Open` around `return err`.
DecodePacketAlwaysReturns(rerr, pk, open, handlers) ==
    IF rerr # "nil"
    THEN [ret |-> rerr, invoked |-> NoHandler, panic |-> FALSE]
    ELSE IF pk.isNil
    THEN [ret |-> "nil", invoked |-> NoHandler, panic |-> TRUE]
    ELSE IF handlers[pk.Id] = NoHandler
    THEN [ret |-> "unknown", invoked |-> NoHandler, panic |-> FALSE]
    ELSE [ret |-> "nil", invoked |-> HandlerCall(handlers[pk.Id], pk), panic |-> FALSE]

\* DecodePacket after ReadJSON returned rerr into pk, with the connection's
\* Open flag as it is then: the error it returns, the callback it invoked,
\* and whether it dereferenced a nil packet.
DecodePacket(rerr, pk, open, handlers) ==
    IF rerr # "nil"
    THEN [ret |-> IF open THEN rerr ELSE "nil", invoked |-> NoHandler, panic |-> FALSE]
    ELSE IF pk.isNil
    THEN [ret |-> "nil", invoked |-> NoHandler, panic |-> TRUE]
    ELSE IF handlers[pk.Id] = NoHandler
    THEN [ret |-> "unknown", invoked |-> NoHandler, panic |-> FALSE]
    ELSE [ret |-> "nil", invoked |-> HandlerCall(handlers[pk.Id], pk), panic |-> FALSE]

\* if err != nil && s.ErrorHandler != nil { s.ErrorHandler(err) }
Report(err, hasHandler) == IF err # "nil" /\ hasHandler THEN err ELSE "nil"

\* What a ReadJSON can return on connection c: a message, a close frame
\* (the close handler has then run), an I/O failure; on a transport that
\* already failed, the same failure again. Ping and pong frames are
\* answered inside the read, which goes on waiting.
Deliveries(c) ==
    IF transport[c] = "up"
    THEN {m \in Messages : m.frame \in peerFrames}
         \cup {[kind |-> "close", id |-> NoKey, data |-> "absent", frame |-> "control"],
               [kind |-> "drop", id |-> NoKey, data |-> "absent", frame |-> "none"]}
    ELSE IF transport[c] = "closed"
    THEN {[kind |-> "close", id |-> NoKey, data |-> "absent", frame |-> "control"]}
    ELSE {[kind |-> "drop", id |-> NoKey, data |-> "absent", frame |-> "none"]}

\* One iteration of `for conn.Open {...}`: the loop test, ReadJSON (the
\* close handler runs inside it), the dispatch, the error report.
Iteration(c) ==
    /\ lpc[c] = "loop"
    /\ Open[c]
    /\ \E m \in Deliveries(c) :
        LET open1 == IF m.kind = "close" /\ transport[c] = "up" THEN FALSE ELSE Open[c]
            pk == ReadJSONInto(p[c], m)
            r == DecodePacket(ReadJSONErr(m), pk, open1, Handlers)
            dead == IF transport[c] = "up" THEN deadReads[c] ELSE deadReads[c] + 1
        IN  /\ Open' = [Open EXCEPT ![c] = open1]
            /\ transport' = [transport EXCEPT ![c] =
                   IF transport[c] # "up" THEN transport[c]
                   ELSE IF m.kind = "close" THEN "closed"
                   ELSE IF m.kind = "drop" THEN "dead" ELSE "up"]
            /\ p' = [p EXCEPT ![c] = pk]
            /\ msg' = [msg EXCEPT ![c] = m]
            /\ invoked' = [invoked EXCEPT ![c] = r.invoked]
            /\ reported' = [reported EXCEPT ![c] =
                   IF r.panic THEN "nil" ELSE Report(r.ret, ErrorHandler)]
            /\ deadReads' = [deadReads EXCEPT ![c] = dead]
            /\ lpc' = [lpc EXCEPT ![c] =
                   IF r.panic \/ dead >= MaxDeadReads THEN "panic" ELSE "loop"]
    /\ UNCHANGED <<codecVars, peerFrames, registered, Handlers, ErrorHandler, Lock, tpc,
                   tconn, late, torn>>

\* An iteration of the loop, its callback run to the end within it.
LoopBody(c) == Iteration(c) /\ UNCHANGED dispatchVars

\* The loop test fails: UpgradeAndListen returns and the deferred ws.Close runs.
LoopExit(c) ==
    /\ lpc[c] = "loop"
    /\ ~Open[c]
    /\ lpc' = [lpc EXCEPT ![c] = "done"]
    /\ UNCHANGED <<codecVars, dispatchVars, peerFrames, registered, Handlers, ErrorHandler, Open, Lock, transport, p, msg, invoked,
                   reported, deadReads, tpc, tconn, late, torn>>

\* The connections the callback has handed to the application.
Handed(c) == lpc[c] \notin {"new", "failed"}

\* A thread calls conn.Send(packet).
SendCall(t, c) ==
    /\ tpc[t] = "idle"
    /\ Handed(c)
    /\ tpc' = [tpc EXCEPT ![t] = "check"]
    /\ tconn' = [tconn EXCEPT ![t] = c]
    /\ late' = [late EXCEPT ![t] = ~Open[c]]
    /\ UNCHANGED <<codecVars, dispatchVars, peerFrames, registered, Handlers, ErrorHandler, Open, Lock, transport, lpc, p, msg,
                   invoked, reported, deadReads, torn>>

\* Send without the `if conn.Open` test.
SendCheckAlways(t) ==
    /\ tpc[t] = "check"
    /\ tpc' = [tpc EXCEPT ![t] = "lock"]
    /\ UNCHANGED <<codecVars, dispatchVars, peerFrames, registered, Handlers, ErrorHandler, Open, Lock, transport, lpc, p, msg,
                   invoked, reported, deadReads, tconn, late, torn>>

\* if conn.Open { ... }
SendCheck(t) ==
    /\ tpc[t] = "check"
    /\ tpc' = [tpc EXCEPT ![t] = IF Open[tconn[t]] THEN "lock" ELSE "idle"]
    /\ UNCHANGED <<codecVars, dispatchVars, peerFrames, registered, Handlers, ErrorHandler, Open, Lock, transport, lpc, p, msg,
                   invoked, reported, deadReads, tconn, late, torn>>

\* Send that goes on without waiting for the lock to be free.
SendLockNoWait(t) ==
    /\ tpc[t] = "lock"
    /\ Lock' = [Lock EXCEPT ![tconn[t]] = t]
    /\ tpc' = [tpc EXCEPT ![t] = "write"]
    /\ UNCHANGED <<codecVars, dispatchVars, peerFrames, registered, Handlers, ErrorHandler, Open, transport, lpc, p, msg,
                   invoked, reported, deadReads, tconn, late, torn>>

\* conn.Lock.Lock()
SendLock(t) ==
    /\ tpc[t] = "lock"
    /\ Lock[tconn[t]] = 0
    /\ Lock' = [Lock EXCEPT ![tconn[t]] = t]
    /\ tpc' = [tpc EXCEPT ![t] = "write"]
    /\ UNCHANGED <<codecVars, dispatchVars, peerFrames, registered, Handlers, ErrorHandler, Open, transport, lpc, p, msg,
                   invoked, reported, deadReads, tconn, late, torn>>

\* The threads that are in the middle of a frame on connection c.
Writing(c) == {u \in Threads : tpc[u] = "writing" /\ tconn[u] = c}

\* conn.WriteJSON(packet) starts putting its frame on the transport.
WriteBegin(t) ==
    /\ tpc[t] = "write"
    /\ tpc' = [tpc EXCEPT ![t] = "writing"]
    /\ torn' = [torn EXCEPT ![tconn[t]] = @ \/ Writing(tconn[t]) # {}]
    /\ UNCHANGED <<codecVars, dispatchVars, peerFrames, registered, Handlers, ErrorHandler, Open, Lock, transport, lpc, p, msg,
                   invoked, reported, deadReads, tconn, late>>

\* conn.WriteJSON(packet) returns; its error is dropped.
WriteEnd(t) ==
    /\ tpc[t] = "writing"
    /\ tpc' = [tpc EXCEPT ![t] = "unlock"]
    /\ UNCHANGED <<codecVars, dispatchVars, peerFrames, registered, Handlers, ErrorHandler, Open, Lock, transport, lpc, p, msg,
                   invoked, reported, deadReads, tconn, late, torn>>

\* conn.Lock.Unlock()
SendUnlock(t) ==
    /\ tpc[t] = "unlock"
    /\ Lock' = [Lock EXCEPT ![tconn[t]] = 0]
    /\ tpc' = [tpc EXCEPT ![t] = "idle"]
    /\ UNCHANGED <<codecVars, dispatchVars, peerFrames, registered, Handlers, ErrorHandler, Open, transport, lpc, p, msg,
                   invoked, reported, deadReads, tconn, late, torn>>


(***************************************************************************)
(* encoder.go: the wire buffer                                             *)
(***************************************************************************)

\* type VarInt uint64. A 64-bit unsigned value is the set of its set bits.
WordBits == 64
U64Bit == 0..(WordBits - 1)

\* binary.MaxVarintLen64
MaxVarintLen64 == 10

\* The Go int n (small and non-negative) as a uint64: VarInt(len(v)).
BitsOf(n) == {i \in 0..30 : (n \div (2^i)) % 2 = 1}

RECURSIVE NatOf(_)
\* int(le) of a uint64 that fits the model's integers.
NatOf(bits) ==
    IF bits = {} THEN 0
    ELSE LET b == CHOOSE x \in bits : TRUE IN 2^b + NatOf(bits \ {b})

FitsInt(bits) == \A b \in bits : b <= 30

\* byte(x): the low eight bits.
ByteOf(bits) == NatOf({b \in bits : b < 8})

RECURSIVE PutUvarintLoose(_)
\* PutUvarint with the loop test off by one: `for x > 0x80`.
PutUvarintLoose(x) ==
    IF (\E b \in x : b >= 8) \/ (7 \in x /\ \E b \in x : b < 7)
    THEN <<ByteOf({b \in x : b < 7}) + 128>>
         \o PutUvarintLoose({b - 7 : b \in {c \in x : c >= 7}})
    ELSE <<ByteOf(x)>>

RECURSIVE PutUvarint(_)
\* binary.PutUvarint: for x >= 0x80 { buf[i] = byte(x) | 0x80; x >>= 7 }
\* and then buf[i] = byte(x).
PutUvarint(x) ==
    IF \E b \in x : b >= 7
    THEN <<ByteOf({b \in x : b < 7}) + 128>>
         \o PutUvarint({b - 7 : b \in {c \in x : c >= 7}})
    ELSE <<ByteOf(x)>>

\* p.WriteVarInt(value): bytes.Buffer.Write cannot fail.
WriteVarInt(x) == PutUvarint(x)

\* uint64(b) << s, bits shifted past the word dropped.
Shl(bits, s) == {b + s : b \in bits} \cap U64Bit

RECURSIVE ReadUvarintFrom(_, _, _, _)
\* The loop of binary.ReadUvarint at its i-th byte, shift s, value x so far.
ReadUvarintFrom(buf, i, s, x) ==
    IF i = MaxVarintLen64
    THEN [x |-> x, err |-> "overflow", rest |-> buf]
    ELSE IF buf = <<>>
    THEN [x |-> x, err |-> IF i > 0 THEN "ErrUnexpectedEOF" ELSE "EOF", rest |-> buf]
    ELSE LET b == Head(buf) IN
         IF b < 128
         THEN IF i = MaxVarintLen64 - 1 /\ b > 1
              THEN [x |-> x, err |-> "overflow", rest |-> Tail(buf)]
              ELSE [x |-> x \cup Shl(BitsOf(b), s), err |-> "nil", rest |-> Tail(buf)]
         ELSE ReadUvarintFrom(Tail(buf), i + 1, s + 7, x \cup Shl(BitsOf(b % 128), s))

\* binary.ReadUvarint(p)
ReadUvarint(buf) == ReadUvarintFrom(buf, 0, 0, {})

\* io.ReadFull(p, buff) for a buff of n bytes: EOF when nothing could be
\* read, ErrUnexpectedEOF when the buffer ran out part way.
ReadFull(buf, n) ==
    IF n = 0 THEN [err |-> "nil", data |-> <<>>, rest |-> buf]
    ELSE IF buf = <<>> THEN [err |-> "EOF", data |-> <<>>, rest |-> buf]
    ELSE IF Len(buf) < n THEN [err |-> "ErrUnexpectedEOF", data |-> <<>>, rest |-> <<>>]
    ELSE [err |-> "nil", data |-> SubSeq(buf, 1, n), rest |-> SubSeq(buf, n + 1, Len(buf))]

\* p.ReadByteArray(length): make([]byte, length) and io.ReadFull.
ReadByteArray(length, buf) ==
    IF ~FitsInt(length) THEN [err |-> "panic", data |-> <<>>, rest |-> buf]
    ELSE ReadFull(buf, NatOf(length))

\* p.WriteString(value): the length as a VarInt, then the bytes.
WriteString(text) == WriteVarInt(BitsOf(Len(text))) \o text

\* p.ReadString()
ReadString(buf) ==
    LET l == ReadUvarint(buf) IN
    IF l.err # "nil" THEN [err |-> l.err, data |-> <<>>, rest |-> l.rest]
    ELSE ReadByteArray(l.x, l.rest)

(***************************************************************************)
(* encoder.go: the value codec. A shape is what reflect reports of a Go    *)
(* type: <<kind>> for a scalar, <<"slice", elem>>, <<"map", key, elem>>,   *)
(* <<"struct", fields>>, <<"ptr", elem>>. A value of a shape is a number,  *)
(* a boolean, a set of bits (VarInt), a byte sequence (string), a sequence *)
(* (slice), a tuple (struct) or a set of <<key, value>> pairs (map).       *)
(***************************************************************************)

Kind(s) == s[1]
Prim(k) == <<k>>
SliceOf(e) == <<"slice", e>>
MapOf(k, e) == <<"map", k, e>>
StructOf(fs) == <<"struct", fs>>
PtrTo(e) == <<"ptr", e>>

\* The fixed-width kinds of the model and their sizes in bytes; uint32,
\* int16, int32 and the floats take the same binary.Write/binary.Read path.
FixedKinds == {"uint8", "uint16", "int8"}
Width(k) == IF k = "uint16" THEN 2 ELSE 1

\* binary.BigEndian: the w bytes of n, most significant first; a signed
\* value goes as its two's complement.
BigEndian(n, w) ==
    LET u == IF n < 0 THEN n + 256^w ELSE n
    IN  [i \in 1..w |-> (u \div (256^(w - i))) % 256]

RECURSIVE FromBytes(_)
FromBytes(bs) ==
    IF bs = <<>> THEN 0 ELSE 256 * FromBytes(SubSeq(bs, 1, Len(bs) - 1)) + bs[Len(bs)]

\* What binary.Read stores for the bytes it read.
FromBigEndian(k, bs) ==
    LET u == FromBytes(bs)
    IN  IF k = "int8" /\ u >= 128 THEN u - 256 ELSE u

\* marshalPrimitive: the type switch on the value; a type it does not list
\* writes nothing and is no error.
marshalPrimitive(s, v) ==
    CASE Kind(s) = "VarInt" -> WriteVarInt(v)
      [] Kind(s) = "bool" -> <<IF v THEN 1 ELSE 0>>
      [] Kind(s) \in FixedKinds -> BigEndian(v, Width(Kind(s)))
      [] Kind(s) = "string" -> WriteString(v)
      [] OTHER -> <<>>

\* Every a \o b.
Cat(A, B) == {a \o b : a \in A, b \in B}

RECURSIVE marshalValue(_, _)
RECURSIVE marshalSlice(_, _)
RECURSIVE marshalMap(_, _)
RECURSIVE marshalFields(_, _)
RECURSIVE marshalElems(_, _)
RECURSIVE marshalEntries(_, _)

\* The struct case of marshalValue: the fields in declared order.
marshalFields(fs, vs) ==
    IF fs = <<>> THEN {<<>>}
    ELSE Cat(marshalValue(Head(fs), Head(vs)), marshalFields(Tail(fs), Tail(vs)))

\* The loops of marshalSlice: by the element kind, marshalValue for a
\* struct, marshalSlice for a slice, marshalPrimitive for anything else.
\* (The elements are appended in index order; the run is split in halves
\* only to keep the evaluation shallow.)
marshalElems(e, vs) ==
    IF vs = <<>> THEN {<<>>}
    ELSE IF Len(vs) = 1
    THEN CASE Kind(e) = "struct" -> marshalValue(e, vs[1])
           [] Kind(e) = "slice" -> marshalSlice(e, vs[1])
           [] OTHER -> {marshalPrimitive(e, vs[1])}
    ELSE LET h == Len(vs) \div 2
         IN  Cat(marshalElems(e, SubSeq(vs, 1, h)),
                 marshalElems(e, SubSeq(vs, h + 1, Len(vs))))

\* The loop of marshalMap over vl.MapKeys(), whose order is not fixed.
marshalEntries(s, m) ==
    IF m = {} THEN {<<>>}
    ELSE UNION {Cat(Cat({marshalPrimitive(s[2], kv[1])}, marshalValue(s[3], kv[2])),
                    marshalEntries(s, m \ {kv})) : kv \in m}

\* marshalSlice with every element framed by a length of its own.
marshalSliceFramed(s, v) ==
    Cat({WriteVarInt(BitsOf(Len(v)))},
        {[i \in 1..(2 * Len(v)) |-> IF i % 2 = 1 THEN 1 ELSE v[i \div 2]]})

\* marshalSlice: the length as a VarInt, then the elements.
marshalSlice(s, v) == Cat({WriteVarInt(BitsOf(Len(v)))}, marshalElems(s[2], v))

\* marshalMap: the entry count as a VarInt, then key and value of each entry.
marshalMap(s, m) == Cat({WriteVarInt(BitsOf(Cardinality(m)))}, marshalEntries(s, m))

\* marshalValue: every byte sequence it can append for value v of shape s
\* (one per order of the map keys). No write into the buffer can fail.
marshalValue(s, v) ==
    CASE Kind(s) = "struct" -> marshalFields(s[2], v)
      [] Kind(s) = "slice" -> marshalSlice(s, v)
      [] Kind(s) = "map" -> marshalMap(s, v)
      [] OTHER -> {marshalPrimitive(s, v)}

\* marshalPacketData(p, data)
marshalPacketData(s, v) == marshalValue(s, v)

\* MarshalPacket with the payload's length written after the id.
MarshalPacketFramed(id, s, v) ==
    {WriteVarInt(id) \o WriteVarInt(BitsOf(Len(d))) \o d : d \in marshalPacketData(s, v)}

\* MarshalPacket(p, packet): packet.Id as a VarInt, then packet.Data.
MarshalPacket(id, s, v) == Cat({WriteVarInt(id)}, marshalPacketData(s, v))

\* The zero value reflect.New and reflect.MakeSlice give.
RECURSIVE Zero(_)
Zero(s) ==
    CASE Kind(s) = "struct" -> [i \in 1..Len(s[2]) |-> Zero(s[2][i])]
      [] Kind(s) \in {"slice", "string"} -> <<>>
      [] Kind(s) \in {"map", "VarInt"} -> {}
      [] Kind(s) = "bool" -> FALSE
      [] Kind(s) = "ptr" -> Zero(s[2])
      [] OTHER -> 0

\* The first of two errors in the order they happened.
First(a, b) == IF a # "nil" THEN a ELSE b

\* A decoding step's outcome: the error returned, the value now in the
\* target, the bytes left in the buffer, and the first failure that
\* happened inside the step whether or not it was returned.
Result(err, val, rest, fail) == [err |-> err, val |-> val, rest |-> rest, fail |-> fail]

\* unmarshalPrimitive: the type switch on r.Interface(). A bool is read with
\* binary.Read(p, order, &v) where v is the interface value, which
\* binary.Read refuses as an invalid type before reading anything. A value
\* whose type the switch does not list (a pointer from reflect.New among
\* them) is left alone and nothing is read.
unmarshalPrimitive(s, cur, buf) ==
    CASE Kind(s) = "VarInt" ->
            LET r == ReadUvarint(buf)
            IN  Result(r.err, IF r.err = "nil" THEN r.x ELSE cur, r.rest, r.err)
      [] Kind(s) \in FixedKinds ->
            LET r == ReadFull(buf, Width(Kind(s)))
            IN  Result(r.err, IF r.err = "nil" THEN FromBigEndian(Kind(s), r.data) ELSE cur,
                       r.rest, r.err)
      [] Kind(s) = "bool" -> Result("invalid type", cur, buf, "invalid type")
      [] Kind(s) = "string" ->
            LET r == ReadString(buf)
            IN  Result(r.err, IF r.err = "nil" THEN r.data ELSE cur, r.rest, r.err)
      [] OTHER -> Result("nil", cur, buf, "nil")

RECURSIVE unmarshalValue(_, _, _)
RECURSIVE unmarshalSlice(_, _, _)
RECURSIVE unmarshalMap(_, _)
RECURSIVE unmarshalFields(_, _, _, _, _, _)
RECURSIVE unmarshalElems(_, _, _, _, _)
RECURSIVE unmarshalEntries(_, _, _, _)

\* The struct case of unmarshalValue from field i on: err is overwritten
\* by every field, so what comes out is the error of the last field.
unmarshalFields(fs, vals, i, buf, err, fail) ==
    IF i > Len(fs) THEN Result(err, vals, buf, fail)
    ELSE LET r == unmarshalValue(fs[i], vals[i], buf)
         IN  unmarshalFields(fs, [vals EXCEPT ![i] = r.val], i + 1, r.rest,
                             r.err, First(fail, r.fail))

\* The element loops of unmarshalSlice from index i on; each returns at the
\* first element error.
unmarshalElems(e, vals, i, buf, fail) ==
    IF i > Len(vals) THEN Result("nil", vals, buf, fail)
    ELSE LET r == CASE Kind(e) = "struct" -> unmarshalValue(e, vals[i], buf)
                    [] Kind(e) = "slice" -> unmarshalSlice(e, vals[i], buf)
                    [] OTHER -> unmarshalPrimitive(e, vals[i], buf)
             vals1 == [vals EXCEPT ![i] = r.val]
         IN  IF r.err # "nil" THEN Result(r.err, vals1, r.rest, First(fail, r.fail))
             ELSE unmarshalElems(e, vals1, i + 1, r.rest, First(fail, r.fail))

\* unmarshalSlice: the length, reflect.MakeSlice(t, l, l) set into the
\* target, then the elements; a []uint8 is read as one run of l bytes.
unmarshalSlice(s, cur, buf) ==
    LET le == ReadUvarint(buf) IN
    IF le.err # "nil" THEN Result(le.err, cur, le.rest, le.err)
    ELSE IF ~FitsInt(le.x) THEN Result("panic", cur, le.rest, "panic")
    ELSE LET l == NatOf(le.x)
             made == [i \in 1..l |-> Zero(s[2])]
         IN  IF Kind(s[2]) = "uint8"
             THEN LET r == ReadFull(le.rest, l)
                  IN  Result(r.err, IF r.err = "nil" THEN r.data ELSE made, r.rest, r.err)
             ELSE unmarshalElems(s[2], made, 1, le.rest, "nil")

\* The loop of unmarshalMap with n entries to go: key := reflect.New(kt)
\* goes to unmarshalPrimitive, value := reflect.New(vt) to unmarshalValue;
\* neither is stored anywhere.
unmarshalEntries(s, n, buf, fail) ==
    IF n = 0 THEN Result("nil", {}, buf, fail)
    ELSE LET k == unmarshalPrimitive(PtrTo(s[2]), Zero(s[2]), buf) IN
         IF k.err # "nil" THEN Result(k.err, {}, k.rest, First(fail, k.fail))
         ELSE LET v == unmarshalValue(PtrTo(s[3]), Zero(s[3]), k.rest) IN
              IF v.err # "nil"
              THEN Result(v.err, {}, v.rest, First(fail, First(k.fail, v.fail)))
              ELSE unmarshalEntries(s, n - 1, v.rest, First(fail, First(k.fail, v.fail)))

\* The iterations `for i := uint64(0); i < count; i++` can make: a count past
\* the model's integers is past the buffer too, and the loop ends on the
\* read that finds the buffer empty.
EntryCount(count, buf) == IF FitsInt(count) THEN NatOf(count) ELSE Len(buf) + 1

\* unmarshalMap(p, t): it is given the map's type only, so the target map
\* is never touched.
unmarshalMap(s, buf) ==
    LET count == ReadUvarint(buf) IN
    IF count.err # "nil" THEN Result(count.err, {}, count.rest, count.err)
    ELSE unmarshalEntries(s, EntryCount(count.x, count.rest), count.rest, "nil")

\* unmarshalValue(p, x) with cur the value x holds before the call.
unmarshalValue(s, cur, buf) ==
    CASE Kind(s) = "ptr" -> unmarshalValue(s[2], cur, buf)
      [] Kind(s) = "struct" -> unmarshalFields(s[2], cur, 1, buf, "nil", "nil")
      [] Kind(s) = "slice" -> unmarshalSlice(s, cur, buf)
      [] Kind(s) = "map" ->
            LET r == unmarshalMap(s, buf) IN Result(r.err, cur, r.rest, r.fail)
      [] OTHER -> unmarshalPrimitive(s, cur, buf)

\* UnMarshalPacket(p, out) for out = new(T): reflect.ValueOf(out).Elem().
UnMarshalPacket(s, buf) == unmarshalValue(s, Zero(s), buf)

(***************************************************************************)
(* The records the codec is run on.                                        *)
(***************************************************************************)

\* net_test.go: type TestNest struct { Name string; Value uint8 }
TestNest == StructOf(<<Prim("string"), Prim("uint8")>>)

\* net_test.go: type TestPacket struct { Name string; User uint8; Values []TestNest }
TestPacket == StructOf(<<Prim("string"), Prim("uint8"), SliceOf(TestNest)>>)

\* The record types the model marshals: the test's packet and one record
\* for each wire kind and each way of nesting.
Shapes ==
    { TestPacket,
      TestNest,
      StructOf(<<Prim("VarInt")>>),
      StructOf(<<Prim("string")>>),
      StructOf(<<SliceOf(Prim("uint8"))>>),
      StructOf(<<Prim("uint8"), Prim("uint16"), Prim("int8")>>),
      StructOf(<<Prim("bool")>>),
      StructOf(<<Prim("bool"), Prim("uint8")>>),
      StructOf(<<Prim("uint8"), StructOf(<<>>)>>),
      StructOf(<<MapOf(Prim("uint8"), Prim("uint8")), Prim("uint8")>>),
      StructOf(<<SliceOf(SliceOf(Prim("uint8")))>>),
      StructOf(<<SliceOf(Prim("uint16"))>>) }

\* 2^k - 1 and 2^k for every k: the values around each 7-bit group boundary,
\* 0 and 2^64 - 1 included.
U64Samples == {0..(k - 1) : k \in 0..WordBits} \cup {{k} : k \in U64Bit}

\* A text long enough for its length to need two VarInt bytes.
LongText == [i \in 1..LongLen |-> 97]

\* The test's name, "Jacob".
Jacob == <<74, 97, 99, 111, 98>>

\* The ids the model puts on a packet: 0, the test's 0x02, and one that
\* needs two VarInt bytes.
PacketIds == {BitsOf(0), BitsOf(2), BitsOf(300)}

\* Buffers that come from a peer rather than from marshalPacketData.
ForeignBytes == {<<0>>, <<1>>, <<2>>, <<255>>}

\* A byte run of the same length.
LongRun == [i \in 1..LongLen |-> 200]

SeqsUpTo(S, n) == UNION {[1..k -> S] : k \in 0..n}

RECURSIVE Values(_, _)
RECURSIVE FieldValues(_, _)

\* The values drawn for a shape, fewer for an element (top FALSE) than for
\* a field of the record itself.
Values(s, top) ==
    CASE Kind(s) = "uint8" -> IF top THEN {0, 1, 2, 200} ELSE {7, 200}
      [] Kind(s) = "uint16" -> IF top THEN {0, 258, 65535} ELSE {258}
      [] Kind(s) = "int8" -> IF top THEN {-128, -1, 5} ELSE {-1}
      [] Kind(s) = "bool" -> BOOLEAN
      [] Kind(s) = "VarInt" -> U64Samples
      [] Kind(s) = "string" ->
            IF top THEN SeqsUpTo({74, 97}, MaxLen) \cup {LongText, Jacob}
            ELSE {<<>>, <<72, 73>>}
      [] Kind(s) = "slice" ->
            SeqsUpTo(Values(s[2], FALSE), MaxLen)
                \cup (IF top /\ Kind(s[2]) = "uint8" THEN {LongRun} ELSE {})
      [] Kind(s) = "map" ->
            {m \in SUBSET (Values(s[2], FALSE) \X Values(s[3], FALSE)) :
                /\ Cardinality(m) <= MaxLen
                /\ \A a, b \in m : a[1] = b[1] => a = b}
      [] Kind(s) = "struct" -> FieldValues(s[2], top)

FieldValues(fs, top) ==
    IF fs = <<>> THEN {<<>>}
    ELSE {<<v>> \o rest : v \in Values(Head(fs), top), rest \in FieldValues(Tail(fs), top)}

NoResult == Result("nil", <<>>, <<>>, "nil")

\* No codec call is in progress.
CodecIdle ==
    /\ cshape = StructOf(<<>>)
    /\ cval = <<>>
    /\ cid = {}
    /\ cwire = <<>>
    /\ cbuf = <<>>
    /\ ccut = FALSE
    /\ cres = NoResult
    /\ cpc = "idle"

(***************************************************************************)
(* Specifications                                                          *)
(***************************************************************************)

\* The state after NewPacketSystem, with no codec call in progress.
Init == NetInit /\ CodecIdle

\* The serving side: the table is set up, connections are upgraded and
\* their dispatch loops run.
Next ==
    \/ \E id \in Ids, h \in HandlerNames : AddHandler(id, h) /\ UNCHANGED registered
    \/ SetErrorHandler
    \/ \E c \in Conns : UpgradeAndListen(c)
    \/ \E c \in Conns : LoopBody(c)
    \/ \E c \in Conns : LoopExit(c)

Spec == Init /\ [][Next]_vars

\* The sending side: one upgraded connection, its dispatch loop (which is
\* where the close notification arrives), and the threads that Send on it.
SendNext ==
    \/ UpgradeAndListen("c1")
    \/ LoopBody("c1")
    \/ LoopExit("c1")
    \/ \E t \in Threads : SendCall(t, "c1")
    \/ \E t \in Threads : SendCheck(t)
    \/ \E t \in Threads : SendLock(t)
    \/ \E t \in Threads : WriteBegin(t)
    \/ \E t \in Threads : WriteEnd(t)
    \/ \E t \in Threads : SendUnlock(t)

SendSpec == Init /\ [][SendNext]_vars

\* The application's call AddHandler(s, id, h) as the history sees it.
Registers(id, h) ==
    registered' = [registered EXCEPT ![id] =
        [last |-> h, over |-> Handlers[id] \notin {NoHandler, h}]]

\* Registration with its history: handlers are registered and registered
\* again, then one connection is served.
RegNext ==
    \/ \E id \in Ids, h \in HandlerNames : AddHandler(id, h) /\ Registers(id, h)
    \/ UpgradeAndListen("c1")
    \/ LoopBody("c1")
    \/ LoopExit("c1")

RegSpec == Init /\ [][RegNext]_vars

\* handler(p) with the call detached from the loop (go handler(p)).
CallDetached(c) == TRUE

\* handler(p) is a plain call: the loop is past it only when the callback
\* has returned.
CallReturned(c) == running[c] = {}

\* An iteration of the loop as the history sees it: ReadJSON returns the
\* next message and, for a registered id, the callback begins.
DispatchRead(c) ==
    /\ CallReturned(c)
    /\ received[c] < MaxMsgs
    /\ Iteration(c)
    /\ received' = [received EXCEPT ![c] = @ + 1]
    /\ IF invoked'[c] # NoHandler
       THEN /\ running' = [running EXCEPT ![c] = @ \cup {received[c] + 1}]
            /\ started' = [started EXCEPT ![c] = Append(@, received[c] + 1)]
       ELSE UNCHANGED <<running, started>>

\* A callback returns.
HandlerReturn(c) ==
    /\ \E k \in running[c] : running' = [running EXCEPT ![c] = @ \ {k}]
    /\ UNCHANGED <<codecVars, peerFrames, registered, Handlers, ErrorHandler, Open, Lock,
                   transport, lpc, p, msg, invoked, reported, deadReads, tpc, tconn,
                   late, torn, received, started>>

\* One connection's loop with its callbacks followed from call to return.
DispatchNext ==
    \/ \E id \in Ids, h \in HandlerNames : AddHandler(id, h) /\ UNCHANGED registered
    \/ UpgradeAndListen("c1")
    \/ DispatchRead("c1")
    \/ HandlerReturn("c1")
    \/ LoopExit("c1")

DispatchSpec == Init /\ [][DispatchNext]_vars

\* A peer that sends its messages in text frames and in binary frames.
FrameInit == NetStart(FrameTypes) /\ CodecIdle

FrameNext ==
    \/ \E id \in Ids, h \in HandlerNames : AddHandler(id, h) /\ UNCHANGED registered
    \/ SetErrorHandler
    \/ UpgradeAndListen("c1")
    \/ LoopBody("c1")
    \/ LoopExit("c1")

FrameSpec == FrameInit /\ [][FrameNext]_vars

\* A record of one of the shapes, and an empty PacketBuffer.
CodecInit ==
    /\ NetInit
    /\ \E s \in Shapes : \E v \in Values(s, TRUE) :
        /\ cshape = s
        /\ cval = v
    /\ cid = {}
    /\ cwire = <<>>
    /\ cbuf = <<>>
    /\ ccut = FALSE
    /\ cres = NoResult
    /\ cpc = "new"

\* marshalPacketData(p, data) on the record.
Marshal ==
    /\ cpc = "new"
    /\ \E bytes \in marshalPacketData(cshape, cval) :
        /\ cwire' = bytes
        /\ cbuf' = bytes
    /\ cpc' = "marshalled"
    /\ UNCHANGED <<cshape, cval, cid, ccut, cres>>
    /\ UNCHANGED netVars

\* MarshalPacket(p, &Packet{Id: id, Data: record}).
Envelope(id) ==
    /\ cpc = "new"
    /\ \E bytes \in MarshalPacket(id, cshape, cval) :
        /\ cwire' = bytes
        /\ cbuf' = bytes
    /\ cid' = id
    /\ cpc' = "packet"
    /\ UNCHANGED <<cshape, cval, ccut, cres>>
    /\ UNCHANGED netVars

\* The receiver gets only the first n bytes of what was written.
Truncate(n) ==
    /\ cpc = "marshalled"
    /\ ~ccut
    /\ n < Len(cbuf)
    /\ cbuf' = SubSeq(cbuf, 1, n)
    /\ ccut' = TRUE
    /\ UNCHANGED <<cshape, cval, cid, cwire, cres, cpc>>
    /\ UNCHANGED netVars

\* The buffer is filled with a peer's bytes instead.
Feed(bytes) ==
    /\ cpc = "new"
    /\ cwire' = bytes
    /\ cbuf' = bytes
    /\ cpc' = "fed"
    /\ UNCHANGED <<cshape, cval, cid, ccut, cres>>
    /\ UNCHANGED netVars

\* UnMarshalPacket(p, new(T)) on what the buffer holds.
Unmarshal ==
    /\ cpc \in {"marshalled", "fed"}
    /\ cres' = UnMarshalPacket(cshape, cbuf)
    /\ cbuf' = cres'.rest
    /\ cpc' = IF cpc = "fed" THEN "decoded" ELSE "unmarshalled"
    /\ UNCHANGED <<cshape, cval, cid, cwire, ccut>>
    /\ UNCHANGED netVars

CodecNext ==
    \/ Marshal
    \/ \E id \in PacketIds : Envelope(id)
    \/ \E bytes \in ForeignBytes : Feed(bytes)
    \/ \E n \in 0..(Len(cbuf) - 1) : Truncate(n)
    \/ Unmarshal

CodecSpec == CodecInit /\ [][CodecNext]_vars

(***************************************************************************)
(* Properties of net.go                                                    *)
(***************************************************************************)

\* C2: Sends issued concurrently on one connection are serialized by the
\* write lock: at most one thread is inside WriteJSON on a connection at any
\* time, and the transport never sees a frame begin while another frame is
\* still being written.
ConcurrentSendSerialized ==
    \A c \in Conns : Cardinality(Writing(c)) <= 1 /\ ~torn[c]

\* Two Sends are past the open test on one connection: one is inside
\* WriteJSON, the other waits for the lock.
ConcurrentSendWitness ==
    \E t, u \in Threads :
        /\ t # u
        /\ tconn[t] = tconn[u]
        /\ tpc[t] = "writing"
        /\ tpc[u] = "lock"

\* C3: a Send invoked after the close handler has set Open to false never
\* gets to the lock or to the transport write: it returns at the open test.
SendAfterCloseWritesNothing ==
    \A t \in Threads : late[t] => tpc[t] \in {"check", "idle"}

\* A Send invoked on a closed connection has returned.
SendAfterCloseWitness ==
    \E t \in Threads :
        /\ late[t]
        /\ tpc[t] = "idle"
        /\ ~Open[tconn[t]]
        /\ lpc[tconn[t]] \in {"loop", "done"}

\* The last iteration of c's loop read a JSON object that names id i.
GotId(c, i) == msg[c].kind = "object" /\ msg[c].id = i

\* C4: after an iteration that read a message whose id has no handler, the
\* error handler (when one is set) has been given the unknown-packet error,
\* no user callback was called, the connection is still Open and the loop
\* can run its next iteration.
UnknownPacketReported ==
    \A c \in Conns : \A i \in Ids :
        (GotId(c, i) /\ Handlers[i] = NoHandler /\ ErrorHandler) =>
            /\ reported[c] = "unknown"
            /\ invoked[c] = NoHandler
            /\ Open[c]
            /\ lpc[c] = "loop"
            /\ ENABLED LoopBody(c)

\* An unknown id arrived while another id does have a handler.
UnknownPacketWitness ==
    \E c \in Conns : \E i, j \in Ids :
        /\ GotId(c, i)
        /\ Handlers[i] = NoHandler
        /\ Handlers[j] # NoHandler
        /\ ErrorHandler
        /\ reported[c] = "unknown"

\* C6: once ReadJSON has reported that the transport is shut down, with or
\* without a close frame, the loop does not iterate again: the only step
\* left to it is to leave.
LoopEndsOnShutdown ==
    \A c \in Conns : (transport[c] # "up" /\ lpc[c] = "loop") => ~Open[c]

\* C7: after an iteration that read a message with a registered id whose
\* data does not decode into the registered struct, the error handler has
\* been given the failure and no user callback was called.
DecodeFailureReported ==
    \A c \in Conns : \A i \in Ids :
        (GotId(c, i) /\ Handlers[i] # NoHandler /\ msg[c].data = "bad" /\ ErrorHandler) =>
            /\ reported[c] # "nil"
            /\ invoked[c] = NoHandler

\* C9: the iteration that finds the connection closed gives no error to the
\* error handler, and a step that shuts one connection's transport leaves
\* the loop and the Open flag of every other connection as they were.
ClosureReportedOnce ==
    /\ [](\A c \in Conns : (Handed(c) /\ ~Open[c]) => reported[c] = "nil")
    /\ [][\A c, d \in Conns :
            (c # d /\ transport'[c] # transport[c]) =>
                (lpc'[d] = lpc[d] /\ Open'[d] = Open[d])]_vars

\* One connection has read its close frame with an error handler set, and
\* the other connection is still open and looping.
ClosureReportedOnceWitness ==
    \E c, d \in Conns :
        /\ c # d
        /\ ErrorHandler
        /\ msg[c].kind = "close"
        /\ ~Open[c]
        /\ Open[d]
        /\ lpc[d] = "loop"
        /\ msg[d].kind = "object"

(***************************************************************************)
(* Properties of encoder.go                                                *)
(***************************************************************************)

\* A codec run that decoded the whole of what was written.
DecodedWhole == cpc = "unmarshalled" /\ ~ccut

\* marshalPacketData has written the record.
Written == cpc \in {"marshalled", "unmarshalled"}

\* A codec run that decoded a proper prefix of what was written.
DecodedPrefix == cpc = "unmarshalled" /\ ccut

\* C1: decoding the bytes written for a record gives no error and a record
\* equal to the one written (a map being the set of its entries).
RoundTrip == DecodedWhole => (cres.err = "nil" /\ cres.val = cval)

\* C5: decoding a proper prefix of the bytes written for a record ends with
\* a truncation error: never with success, never with a panic.
TruncationSafety == DecodedPrefix => cres.err \in {"EOF", "ErrUnexpectedEOF"}

\* C8: a decode in which the read of some field or element failed does not
\* report success: it returns an error.
FailureAborts == (cpc = "unmarshalled" /\ cres.fail # "nil") => cres.err # "nil"

\* The highest set bit of a non-zero 64-bit value.
TopBit(x) == CHOOSE b \in x : \A c \in x : c <= b

\* ceil(bit_length / 7), at least 1.
Groups(x) == IF x = {} THEN 1 ELSE (TopBit(x) \div 7) + 1

\* bytes is the minimal base-128 form of x: ceil(bit_length/7) bytes (1 to
\* 10), 0x80 set on every byte but the last, and the i-th byte carrying bits
\* 7(i-1) .. 7i-1 of x.
IsUvarintOf(bytes, x) ==
    /\ Len(bytes) = Groups(x)
    /\ Len(bytes) \in 1..10
    /\ \A i \in 1..Len(bytes) :
        /\ (bytes[i] >= 128) <=> (i < Len(bytes))
        /\ \A j \in 0..6 : ((bytes[i] \div (2^j)) % 2 = 1) <=> ((7 * (i - 1) + j) \in x)

\* bytes is a length prefix in that form followed by exactly the run.
IsPrefixedRun(bytes, run) ==
    LET k == Groups(BitsOf(Len(run))) IN
    /\ Len(bytes) = k + Len(run)
    /\ IsUvarintOf(SubSeq(bytes, 1, k), BitsOf(Len(run)))
    /\ SubSeq(bytes, k + 1, Len(bytes)) = run

VarIntRecord == StructOf(<<Prim("VarInt")>>)
TextRecord == StructOf(<<Prim("string")>>)
BytesRecord == StructOf(<<SliceOf(Prim("uint8"))>>)

\* C10: a VarInt is written in the minimal base-128 form, least significant
\* group first, and reads back as the same 64-bit value; a text and a byte
\* run are written as their length in that form followed by their bytes, and
\* read back the same.
VarintRoundTrip ==
    /\ (cshape = VarIntRecord /\ Written) => IsUvarintOf(cwire, cval[1])
    /\ (cshape \in {TextRecord, BytesRecord} /\ Written) => IsPrefixedRun(cwire, cval[1])
    /\ (cshape \in {VarIntRecord, TextRecord, BytesRecord} /\ DecodedWhole) =>
            (cres.err = "nil" /\ cres.val = cval /\ cbuf = <<>>)

\* 2^64 - 1 went out as ten bytes and came back.
VarintRoundTripWitness ==
    /\ DecodedWhole
    /\ cshape = VarIntRecord
    /\ cval = <<U64Bit>>
    /\ Len(cwire) = 10
    /\ cres.val = cval

\* C11: a []uint8 of N bytes is written as the VarInt of N followed by
\* exactly the N bytes, with nothing between or around the elements, and
\* unmarshalSlice's single read of N bytes gives the same run back and
\* leaves the buffer empty.
ByteRunEncoding ==
    (cshape = BytesRecord /\ Written) =>
        LET run == cval[1]
            prefix == PutUvarint(BitsOf(Len(run)))
        IN  /\ cwire = prefix \o run
            /\ Len(cwire) = Len(prefix) + Len(run)
            /\ DecodedWhole => (cres.err = "nil" /\ cres.val[1] = run /\ cres.rest = <<>>)

\* A run long enough for a two-byte length was written and read back.
ByteRunWitness ==
    /\ DecodedWhole
    /\ cshape = BytesRecord
    /\ Len(cval[1]) = LongLen
    /\ Len(cwire) = LongLen + 2
    /\ cres.val = cval

\* C12: MarshalPacket of id 2 with the record {Name: "Jacob", Age: 2} writes
\* exactly 02 05 4A 61 63 6F 62 02; for every id and every such record the
\* bytes are the id's VarInt, the name's length and bytes and the one byte
\* of the age, with no length of the payload and no tag between them.
EnvelopeLiteral ==
    (cpc = "packet" /\ cshape = TestNest) =>
        /\ Len(cwire) = Groups(cid) + Groups(BitsOf(Len(cval[1]))) + Len(cval[1]) + 1
        /\ (cid = BitsOf(2) /\ cval = <<Jacob, 2>>) =>
                cwire = <<2, 5, 74, 97, 99, 111, 98, 2>>

\* The packet of the test has been written.
EnvelopeLiteralWitness ==
    /\ cpc = "packet"
    /\ cshape = TestNest
    /\ cid = BitsOf(2)
    /\ cval = <<Jacob, 2>>
    /\ Len(cwire) = 8

\* C13: the table holds for every id exactly the handler of the latest
\* AddHandler call for that id (a call replaces what the id had and touches
\* no other id), and a message with a registered id makes the loop invoke
\* that latest handler and no other.
ReRegistrationOverwrites ==
    /\ \A i \in Ids : Handlers[i] = registered[i].last
    /\ \A c \in Conns : \A i \in Ids :
        (GotId(c, i) /\ msg[c].data = "ok" /\ registered[i].last # NoHandler) =>
            invoked[c] = registered[i].last

\* An id whose handler was replaced by a different one got a message, and
\* the other id still has its handler.
ReRegistrationWitness ==
    \E c \in Conns : \E i, j \in Ids :
        /\ i # j
        /\ registered[i].over
        /\ ~registered[j].over
        /\ Handlers[j] # NoHandler
        /\ GotId(c, i)
        /\ msg[c].data = "ok"
        /\ invoked[c] = registered[i].last

BoolRecord == StructOf(<<Prim("bool")>>)

\* C14: a boolean is written as the one byte 1 or 0, and a one-byte buffer
\* decodes without error to true when the byte is not zero and to false
\* when it is zero.
PermissiveBool ==
    /\ (cshape = BoolRecord /\ Written) => cwire = <<IF cval[1] THEN 1 ELSE 0>>
    /\ (cshape = BoolRecord /\ cpc = "decoded") =>
            /\ cres.err = "nil"
            /\ cres.val[1] = (cwire[1] # 0)
            /\ cres.rest = <<>>

\* C15: an iteration whose received message was not a binary message (a
\* text frame, a control frame) invoked no handler and gave nothing to the
\* error handler.
NonBinaryIgnored ==
    \A c \in Conns :
        msg[c].frame \in {"text", "control"} =>
            (invoked[c] = NoHandler /\ reported[c] = "nil")

\* C16: a decode of the bytes written for a record that returns no error
\* has read exactly those bytes: nothing of them is left in the buffer.
ExactConsumption ==
    (DecodedWhole /\ cres.err = "nil") => cres.rest = <<>>

\* C17: on one connection at most one callback is executing at any time,
\* a callback that is executing is the one of the latest message received
\* (no later message is read before it returns), and the callbacks began
\* in the order in which their messages arrived.
SequentialDispatch ==
    \A c \in Conns :
        /\ Cardinality(running[c]) <= 1
        /\ running[c] \subseteq {received[c]}
        /\ \A i, j \in 1..Len(started[c]) : i < j => started[c][i] < started[c][j]

\* Two callbacks have run and returned, and a third is executing.
SequentialDispatchWitness ==
    \E c \in Conns :
        /\ Len(started[c]) = 3
        /\ running[c] = {started[c][3]}

\* C18: a connection comes out of a successful upgrade Open; once it has
\* been handed over and Open is false, no step of the loop or of any Send
\* makes Open true again; and Open goes from true to false only in the read
\* that received the close frame.
ClosedIsTerminal ==
    [][\A c \in Conns :
        /\ (lpc[c] = "new" /\ lpc'[c] = "loop") => Open'[c]
        /\ (Handed(c) /\ ~Open[c]) => ~Open'[c]
        /\ (Open[c] /\ ~Open'[c]) => msg'[c].kind = "close"]_vars

\* A connection was closed by a close frame, its loop has returned, and a
\* Send called on it since has come back.
ClosedIsTerminalWitness ==
    \E c \in Conns : \E t \in Threads :
        /\ lpc[c] = "done"
        /\ msg[c].kind = "close"
        /\ ~Open[c]
        /\ tconn[t] = c
        /\ late[t]
        /\ tpc[t] = "idle"

\* C19: in every interleaving of Sends with the close notification, a
\* thread begins its transport write only while the connection is Open.
NoWriteWhileClosed ==
    [][\A t \in Threads :
        (tpc[t] = "write" /\ tpc'[t] = "writing") => Open[tconn[t]]]_vars

\* C20: the id and the data the dispatch of a message works on are those
\* of that message alone: a key the message lacks has the zero value of a
\* fresh Packet, whatever the messages before it held, and a callback is
\* invoked only for the id the message itself names.
NoCarryOver ==
    \A c \in Conns :
        msg[c].kind = "object" =>
            /\ p[c].Id = (IF msg[c].id = NoKey THEN EmptyPacket.Id ELSE msg[c].id)
            /\ p[c].Data = (IF msg[c].data = "absent" THEN EmptyPacket.Data ELSE msg[c].data)

====
